---- MODULE Spec2Model ----
(***************************************************************************)
(* Model of satellite_fusion_pipeline.py: the Scene handle with its lazy   *)
(* loaders, the cloud metric, the resampler, the mean-composite fusion and *)
(* the run_pipeline driver.                                                *)
(*                                                                         *)
(* A raster (xarray.DataArray) is a record                                 *)
(*   [crs, res, extent, kernel, px]                                        *)
(* where crs/res/extent identify its pixel grid (its coordinate labels),   *)
(* kernel records the resampling kernel that produced it and px gives the  *)
(* value at each pixel.  A file read from disk is on the file's own grid:  *)
(* crs = "native", res = 0 (unknown to the program), extent = the locator. *)
(***************************************************************************)
EXTENDS Integers, Sequences, FiniteSets

VARIABLES cfg, scenes, pc, i, valid_arrays, fused, error, written, printed,
          outcome, normIn

vars == <<cfg, scenes, pc, i, valid_arrays, fused, error, written, printed,
          outcome, normIn>>

(* ---------------------------------------------------------------------- *)
(* Bounds                                                                 *)
(* ---------------------------------------------------------------------- *)
MaxScenes == 2
MaxBatch == 3

(* Every raster of the model has these two pixels. *)
Pixels == {1, 2}
NPix == Cardinality(Pixels)

(* np.nan, the no-data value written by the pixel mask. *)
NaN == -1

(* ---------------------------------------------------------------------- *)
(* Configuration (argparse options as merged by _merge_cli_yaml)          *)
(* ---------------------------------------------------------------------- *)
TargetResolutions == {30, 70}
MaxCloudValues == {20, 50}
Sensors == {"ECOSTRESS", "Landsat", "SLSTR", "MODIS"}

Configs ==
    [target_resolution : TargetResolutions,
     ecostress_resample : {"area", "cubic"},
     pansharpen : BOOLEAN,
     sr_model : {"None", "model"},
     cloud_mask : BOOLEAN,
     max_cloud : MaxCloudValues]

DefaultCfg ==
    [target_resolution |-> 30, ecostress_resample |-> "area",
     pansharpen |-> FALSE, sr_model |-> "None",
     cloud_mask |-> TRUE, max_cloud |-> 20]

(* ---------------------------------------------------------------------- *)
(* Raster I/O                                                             *)
(* ---------------------------------------------------------------------- *)
QaValues == {0, 1}
QaFiles == [Pixels -> QaValues]

(* Content of the LST asset behind locator href: every pixel of every     *)
(* scene carries its own value.                                           *)
LstFile(href) == [p \in Pixels |-> href * (NPix + 1) + p]

open_rasterio(href, content) ==
    [crs |-> "native", res |-> 0, extent |-> href, kernel |-> "none",
     px |-> content]

(* rio.reproject(dst_crs, resolution, resampling): no transform or shape  *)
(* is passed, so the destination grid is laid over the source's extent.   *)
reproject(g, dst_crs, resolution, resampling) ==
    [g EXCEPT !.crs = dst_crs, !.res = resolution, !.kernel = resampling]

GridOf(g) == [crs |-> g.crs, res |-> g.res, extent |-> g.extent]

(* ---------------------------------------------------------------------- *)
(* Scene                                                                  *)
(* ---------------------------------------------------------------------- *)
(* A cache slot is <<>> (None) or <<raster>>.  qa_href is "None" or the   *)
(* locator "qa".  lstReads, qaReads, lstWrites and qaWrites count the     *)
(* reads performed and the assignments to the two slots.                  *)
Scene(href, qa_href, sensor) ==
    [href |-> href, qa_href |-> qa_href,
     sensor |-> sensor, cache_lst |-> <<>>, cache_qa |-> <<>>,
     lstReads |-> 0, qaReads |-> 0, lstWrites |-> 0, qaWrites |-> 0]

(* Scene.lst(): the handle after the call and the value returned. *)
lst_always_reads(sc) ==
    LET r == open_rasterio(sc.href, LstFile(sc.href))
    IN  [sc |-> [sc EXCEPT !.cache_lst = <<r>>,
                           !.lstReads = @ + 1, !.lstWrites = @ + 1],
         val |-> <<r>>]

lst(sc) ==
    IF sc.cache_lst = <<>>
    THEN LET r == open_rasterio(sc.href, LstFile(sc.href))
         IN  [sc |-> [sc EXCEPT !.cache_lst = <<r>>,
                                !.lstReads = @ + 1, !.lstWrites = @ + 1],
              val |-> <<r>>]
    ELSE [sc |-> sc, val |-> sc.cache_lst]

(* Scene.qa(): the handle after the call and the value returned (<<>> is  *)
(* None).  store is what the quality locator holds, should it be read.    *)
qa(sc, store) ==
    IF sc.qa_href = "None"
    THEN [sc |-> sc, val |-> <<>>]
    ELSE IF sc.cache_qa = <<>>
    THEN LET r == open_rasterio(sc.href, store)
         IN  [sc |-> [sc EXCEPT !.cache_qa = <<r>>,
                                !.qaReads = @ + 1, !.qaWrites = @ + 1],
              val |-> <<r>>]
    ELSE [sc |-> sc, val |-> sc.cache_qa]

(* Whether the call would perform a read (and so can fail in the reader). *)
lst_reads(sc) == sc.cache_lst = <<>>
qa_reads(sc) == sc.qa_href # "None" /\ sc.cache_qa = <<>>

(* ---------------------------------------------------------------------- *)
(* Discovery                                                              *)
(* ---------------------------------------------------------------------- *)
(* What the catalog can hold for one scene: a sensor, and a quality       *)
(* locator or none.                                                       *)
Descriptors == [sensor : Sensors, qa_href : {"None", "qa"}]

Catalogs == UNION {[1..n -> Descriptors] : n \in 0..MaxScenes}

discover_scenes(catalog) ==
    [k \in DOMAIN catalog |->
        Scene(k, catalog[k].qa_href, catalog[k].sensor)]

(* ---------------------------------------------------------------------- *)
(* Cloud metric                                                           *)
(* ---------------------------------------------------------------------- *)
RECURSIVE CountTrue(_, _)
(* Number of TRUE entries among mask[1..n]. *)
CountTrue(mask, n) ==
    IF n = 0 THEN 0
    ELSE CountTrue(mask, n - 1) + (IF mask[n] THEN 1 ELSE 0)

(* _cloud_fraction: the percentage mean(qa != 0) * 100, kept exact as the *)
(* fraction num / den; 0 / 1 when the scene has no quality band.          *)
cloud_fraction(sc, store) ==
    LET q == qa(sc, store).val
    IN  IF q = <<>>
        THEN [num |-> 0, den |-> 1]
        ELSE LET cloud_mask == [p \in Pixels |-> q[1].px[p] # 0]
             IN  [num |-> 100 * CountTrue(cloud_mask, NPix), den |-> NPix]

(* cf > cfg["max_cloud"] *)
exceeds_geq(cf, max_cloud) == cf.num >= max_cloud * cf.den

exceeds(cf, max_cloud) == cf.num > max_cloud * cf.den

(* xr.where(sc.qa() == 0, sc.lst(), np.nan) *)
xr_where_inverted(q, l) ==
    [l EXCEPT !.px = [p \in Pixels |-> IF q.px[p] # 0 THEN l.px[p] ELSE NaN]]

xr_where(q, l) ==
    [l EXCEPT !.px = [p \in Pixels |-> IF q.px[p] = 0 THEN l.px[p] ELSE NaN]]

(* ---------------------------------------------------------------------- *)
(* Resampling                                                             *)
(* ---------------------------------------------------------------------- *)
(* Whether _resample_to_target takes one of its two reproject branches.   *)
reprojects(sc, c) ==
    \/ sc.sensor = "ECOSTRESS" /\ c.target_resolution = 30
    \/ sc.sensor \in {"SLSTR", "MODIS"} /\ c.target_resolution = 30
       /\ c.sr_model # "None"

(* _resample_to_target, given the raster g that scene.lst() returns. *)
resample_to_target(sc, g, c) ==
    LET res == c.target_resolution
    IN  IF sc.sensor = "ECOSTRESS" /\ res = 30
        THEN reproject(g, "EPSG:32612", res,
                       IF c.ecostress_resample = "cubic"
                       THEN "cubic" ELSE "average")
        ELSE IF sc.sensor \in {"SLSTR", "MODIS"} /\ res = 30
                /\ c.sr_model # "None"
        THEN reproject(g, "EPSG:32612", res, "nearest")
        ELSE g

(* ---------------------------------------------------------------------- *)
(* Fusion                                                                 *)
(* ---------------------------------------------------------------------- *)
(* xr.concat(arrays, dim="time") aligns its inputs on their coordinate    *)
(* labels with an outer join: the stack covers every pixel grid present   *)
(* and an input is NaN on the grids it does not cover.                    *)
concat(arrays) ==
    [t \in {GridOf(arrays[j]) : j \in DOMAIN arrays} |->
        [j \in DOMAIN arrays |->
            IF GridOf(arrays[j]) = t THEN arrays[j].px
            ELSE [p \in Pixels |-> NaN]]]

RECURSIVE NanSum(_, _, _)
(* Sum of the non-NaN values of layer[1..n] at pixel p. *)
NanSum(layer, p, n) ==
    IF n = 0 THEN 0
    ELSE NanSum(layer, p, n - 1) + (IF layer[n][p] = NaN THEN 0 ELSE layer[n][p])

RECURSIVE NanCount(_, _, _)
(* Number of non-NaN values of layer[1..n] at pixel p. *)
NanCount(layer, p, n) ==
    IF n = 0 THEN 0
    ELSE NanCount(layer, p, n - 1) + (IF layer[n][p] = NaN THEN 0 ELSE 1)

RECURSIVE AnyNaN(_, _, _)
AnyNaN(layer, p, n) ==
    IF n = 0 THEN FALSE
    ELSE AnyNaN(layer, p, n - 1) \/ layer[n][p] = NaN

(* .mean(dim="time") with skipna=False: one NaN makes the pixel NaN. *)
mean_time_noskip(stack) ==
    [t \in DOMAIN stack |->
        [p \in Pixels |->
            IF AnyNaN(stack[t], p, Len(stack[t]))
            THEN [num |-> 0, den |-> 0]
            ELSE [num |-> NanSum(stack[t], p, Len(stack[t])),
                  den |-> Len(stack[t])]]]

(* .mean(dim="time") of a float stack skips NaN: each pixel is the sum of *)
(* its valid values over their count, kept exact as num / den; 0 / 0 is   *)
(* NaN.                                                                   *)
mean_time(stack) ==
    [t \in DOMAIN stack |->
        [p \in Pixels |->
            [num |-> NanSum(stack[t], p, Len(stack[t])),
             den |-> NanCount(stack[t], p, Len(stack[t]))]]]

(* _fuse without its guard. *)
fuse_unguarded(arrays) ==
    [raise |-> "None", value |-> mean_time(concat(arrays))]

(* _fuse: what it raises ("None" when it returns) and what it returns. *)
fuse(arrays) ==
    IF arrays = <<>>
    THEN [raise |-> "RuntimeError", value |-> <<>>]
    ELSE [raise |-> "None", value |-> mean_time(concat(arrays))]

(* ---------------------------------------------------------------------- *)
(* run_pipeline                                                           *)
(* ---------------------------------------------------------------------- *)
(* pc is the position in run_pipeline: "discover" (line 192), then for    *)
(* scene i of the loop "cloud" (197-200), "mask" (202-203) and "resample" *)
(* (205-206), then "fuse" (208), "export" (209-211), and "done" on return *)
(* or "aborted" when an exception leaves the function (error names it).   *)
(* outcome and normIn record, per scene, how its iteration ended and the  *)
(* raster _resample_to_target received from scene.lst().                  *)

(* valid_arrays.append(da_res) *)
append_twice(arrays, g) == Append(Append(arrays, g), g)

append(arrays, g) == Append(arrays, g)

(* Position after iteration k of the loop: the next scene, or line 208. *)
after_scene_early(k, n) == IF k + 1 >= n THEN "fuse" ELSE "cloud"

after_scene(k, n) == IF k >= n THEN "fuse" ELSE "cloud"

Init ==
    /\ cfg \in Configs
    /\ scenes = <<>>
    /\ pc = "discover"
    /\ i = 1
    /\ valid_arrays = <<>>
    /\ fused = <<>>
    /\ error = "None"
    /\ written = FALSE
    /\ printed = FALSE
    /\ outcome = <<>>
    /\ normIn = <<>>

(* Line 192.  _discover_scenes is a placeholder for the catalog query (it *)
(* returns the empty list); the scenes are whatever the catalog returns,  *)
(* the empty list included.                                               *)
Discover ==
    /\ pc = "discover"
    /\ \E catalog \in Catalogs :
        /\ scenes' = discover_scenes(catalog)
        /\ outcome' = [k \in DOMAIN catalog |-> "pending"]
        /\ normIn' = [k \in DOMAIN catalog |-> <<>>]
        /\ pc' = after_scene(0, Len(catalog))
    /\ UNCHANGED <<cfg, i, valid_arrays, fused, error, written, printed>>

(* Lines 197-200 with cloud_mask off or no quality band: the condition of *)
(* line 197 is false (sc.qa() is not called when cloud_mask is off).      *)
CloudFilterSkip ==
    /\ pc = "cloud"
    /\ ~cfg.cloud_mask \/ scenes[i].qa_href = "None"
    /\ pc' = "resample"
    /\ UNCHANGED <<cfg, scenes, i, valid_arrays, fused, error, written,
                   printed, outcome, normIn>>

(* Lines 197-200, quality band read: the scene is dropped (continue) when *)
(* its cloud fraction exceeds max_cloud, else goes on to the pixel mask.  *)
CloudFilter ==
    /\ pc = "cloud"
    /\ cfg.cloud_mask /\ scenes[i].qa_href # "None"
    /\ \E store \in QaFiles :
        LET sc1 == qa(scenes[i], store).sc
            cf == cloud_fraction(sc1, store)
            sc2 == qa(sc1, store).sc
        IN  /\ scenes' = [scenes EXCEPT ![i] = sc2]
            /\ IF exceeds(cf, cfg.max_cloud)
               THEN /\ outcome' = [outcome EXCEPT ![i] = "dropped"]
                    /\ i' = i + 1
                    /\ pc' = after_scene(i, Len(scenes))
               ELSE /\ pc' = "mask"
                    /\ UNCHANGED <<i, outcome>>
    /\ UNCHANGED <<cfg, valid_arrays, fused, error, written, printed, normIn>>

(* Line 197: rxr.open_rasterio(qa_href) raises; nothing catches it. *)
CloudFilterReadFails ==
    /\ pc = "cloud"
    /\ cfg.cloud_mask /\ qa_reads(scenes[i])
    /\ pc' = "aborted"
    /\ error' = "RasterioIOError"
    /\ outcome' = [outcome EXCEPT ![i] = "failed"]
    /\ UNCHANGED <<cfg, scenes, i, valid_arrays, fused, written, printed,
                   normIn>>

(* Lines 202-203: the masked raster replaces the handle's data slot. *)
PixelMask ==
    /\ pc = "mask"
    /\ \E store \in QaFiles :
        LET q == qa(scenes[i], store)
            l == lst(q.sc)
            lst_da == xr_where(q.val[1], l.val[1])
        IN  scenes' = [scenes EXCEPT ![i] =
                          [l.sc EXCEPT !.cache_lst = <<lst_da>>,
                                       !.lstWrites = @ + 1]]
    /\ pc' = "resample"
    /\ UNCHANGED <<cfg, i, valid_arrays, fused, error, written, printed,
                   outcome, normIn>>

(* Line 202: rxr.open_rasterio(href) raises; nothing catches it. *)
PixelMaskReadFails ==
    /\ pc = "mask"
    /\ lst_reads(scenes[i])
    /\ pc' = "aborted"
    /\ error' = "RasterioIOError"
    /\ outcome' = [outcome EXCEPT ![i] = "failed"]
    /\ UNCHANGED <<cfg, scenes, i, valid_arrays, fused, written, printed,
                   normIn>>

(* Lines 205-206: resample and append to the batch. *)
Resample ==
    /\ pc = "resample"
    /\ LET l == lst(scenes[i])
           da_res == resample_to_target(l.sc, l.val[1], cfg)
       IN  /\ scenes' = [scenes EXCEPT ![i] = l.sc]
           /\ normIn' = [normIn EXCEPT ![i] = l.val]
           /\ valid_arrays' = append(valid_arrays, da_res)
    /\ outcome' = [outcome EXCEPT ![i] = "kept"]
    /\ i' = i + 1
    /\ pc' = after_scene(i, Len(scenes))
    /\ UNCHANGED <<cfg, fused, error, written, printed>>

(* Line 171/156/167: the read inside scene.lst() raises. *)
ResampleReadFails ==
    /\ pc = "resample"
    /\ lst_reads(scenes[i])
    /\ pc' = "aborted"
    /\ error' = "RasterioIOError"
    /\ outcome' = [outcome EXCEPT ![i] = "failed"]
    /\ UNCHANGED <<cfg, scenes, i, valid_arrays, fused, written, printed,
                   normIn>>

(* Lines 156/167: rio.reproject raises, after scene.lst() has returned. *)
ReprojectFails ==
    /\ pc = "resample"
    /\ reprojects(scenes[i], cfg)
    /\ LET l == lst(scenes[i])
       IN  /\ scenes' = [scenes EXCEPT ![i] = l.sc]
           /\ normIn' = [normIn EXCEPT ![i] = l.val]
    /\ pc' = "aborted"
    /\ error' = "ReprojectError"
    /\ outcome' = [outcome EXCEPT ![i] = "failed"]
    /\ UNCHANGED <<cfg, i, valid_arrays, fused, written, printed>>

(* Line 208. *)
Fuse ==
    /\ pc = "fuse"
    /\ LET r == fuse(valid_arrays)
       IN  IF r.raise # "None"
           THEN /\ pc' = "aborted"
                /\ error' = r.raise
                /\ UNCHANGED fused
           ELSE /\ pc' = "export"
                /\ fused' = r.value
                /\ UNCHANGED error
    /\ UNCHANGED <<cfg, scenes, i, valid_arrays, written, printed, outcome,
                   normIn>>

(* Lines 209-211: write the raster, then report. *)
Export ==
    /\ pc = "export"
    /\ written' = TRUE
    /\ printed' = TRUE
    /\ pc' = "done"
    /\ UNCHANGED <<cfg, scenes, i, valid_arrays, fused, error, outcome,
                   normIn>>

Next ==
    \/ Discover
    \/ CloudFilterSkip
    \/ CloudFilter
    \/ CloudFilterReadFails
    \/ PixelMask
    \/ PixelMaskReadFails
    \/ Resample
    \/ ResampleReadFails
    \/ ReprojectFails
    \/ Fuse
    \/ Export

Spec == Init /\ [][Next]_vars

(* ---------------------------------------------------------------------- *)
(* _fuse on its own: any batch of rasters, on one pixel grid or on two,   *)
(* with any pattern of no-data.                                           *)
(* ---------------------------------------------------------------------- *)
FuseValues == {NaN, 1, 2}

FuseRasters ==
    [crs : {"EPSG:32612"}, res : {30}, extent : {1, 2}, kernel : {"average"},
     px : [Pixels -> FuseValues]]

FuseBatches == UNION {[1..n -> FuseRasters] : n \in 0..MaxBatch}

InitFuse ==
    /\ cfg = DefaultCfg
    /\ scenes = <<>>
    /\ pc = "fuse"
    /\ i = 1
    /\ valid_arrays \in FuseBatches
    /\ fused = <<>>
    /\ error = "None"
    /\ written = FALSE
    /\ printed = FALSE
    /\ outcome = <<>>
    /\ normIn = <<>>

NextFuse == Fuse \/ Export

SpecFuse == InitFuse /\ [][NextFuse]_vars

(* ---------------------------------------------------------------------- *)
(* Vocabulary of the properties                                           *)
(* ---------------------------------------------------------------------- *)
Idx == DOMAIN scenes

RECURSIVE SetSum(_, _)
(* Sum of f[x] over the finite set S. *)
SetSum(f, S) ==
    IF S = {} THEN 0
    ELSE LET x == CHOOSE y \in S : TRUE IN f[x] + SetSum(f, S \ {x})

(* What the quality locator of scene k can hold: what was read from it,   *)
(* or anything while it has not been read.                                *)
PossibleQa(k) ==
    IF scenes[k].cache_qa # <<>> THEN {scenes[k].cache_qa[1].px} ELSE QaFiles

HasQa(k) == scenes[k].qa_href # "None"

(* The cloud percentage of a quality band is above max. *)
CloudAbove(content, max) ==
    100 * Cardinality({p \in Pixels : content[p] # 0}) > max * Cardinality(Pixels)

(* The data file of scene k with the flagged pixels of content blanked. *)
Masked(k, content) ==
    [p \in Pixels |-> IF content[p] # 0 THEN NaN ELSE LstFile(k)[p]]

InBatch(k) == \E j \in DOMAIN valid_arrays : valid_arrays[j].extent = k

Processed(k) == outcome[k] \in {"kept", "dropped"}

LoopFinished == pc # "discover" /\ \A k \in Idx : Processed(k)

RECURSIVE SurvivorsUpTo(_)
(* The scenes 1..n that the cloud filter did not drop, in discovery order. *)
SurvivorsUpTo(n) ==
    IF n = 0 THEN <<>>
    ELSE IF outcome[n] = "dropped" THEN SurvivorsUpTo(n - 1)
    ELSE Append(SurvivorsUpTo(n - 1), n)

(* The batch is one grid per surviving scene, in discovery order. *)
BatchIsSurvivors ==
    LET s == SurvivorsUpTo(Len(scenes))
    IN  /\ Len(valid_arrays) = Len(s)
        /\ Len(valid_arrays) =
            Len(scenes) - Cardinality({k \in Idx : outcome[k] = "dropped"})
        /\ \A j \in DOMAIN s :
            /\ valid_arrays[j].extent = s[j]
            /\ valid_arrays[j].px = normIn[s[j]][1].px

SameGrid(arrays) ==
    \A j, k \in DOMAIN arrays : GridOf(arrays[j]) = GridOf(arrays[k])

ValidAt(p) == {j \in DOMAIN valid_arrays : valid_arrays[j].px[p] # NaN}

(* ---------------------------------------------------------------------- *)
(* Properties                                                             *)
(* ---------------------------------------------------------------------- *)

C3_BatchOnTargetGrid ==
    /\ \A j \in DOMAIN valid_arrays :
        /\ valid_arrays[j].crs = "EPSG:32612"
        /\ valid_arrays[j].res = cfg.target_resolution
    /\ SameGrid(valid_arrays)

(* C4: a scene whose load or reprojection fails is dropped alone; the run *)
(* is aborted only when no scene survives, so never while the batch holds *)
(* a kept scene.                                                          *)
C4_AbortOnlyWithoutSurvivors ==
    pc = "aborted" => \A k \in Idx : outcome[k] # "kept"

C6_SlotsWrittenOnce ==
    \A k \in Idx :
        /\ scenes[k].lstWrites <= 1
        /\ scenes[k].qaWrites <= 1
        /\ scenes[k].cache_lst # <<>> =>
            scenes[k].cache_lst[1] = open_rasterio(k, LstFile(k))
        /\ ~HasQa(k) => scenes[k].qaReads = 0 /\ scenes[k].cache_qa = <<>>

(* C6 (amended): each asset is read at most once and the quality slot is  *)
(* written only by that read; the data slot is written by its read and,   *)
(* for a scene that passed the cloud filter, once more by the pixel mask  *)
(* of line 203, after which lst() returns the masked raster instead of    *)
(* the native one, without reading; a handle without quality locator      *)
(* never reads a quality band.                                            *)
C6_ReadOnceMaskOverwrites ==
    \A k \in Idx :
        /\ scenes[k].lstReads <= 1
        /\ scenes[k].qaReads <= 1
        /\ scenes[k].qaWrites = scenes[k].qaReads
        /\ scenes[k].lstWrites \in {scenes[k].lstReads, scenes[k].lstReads + 1}
        /\ scenes[k].cache_lst # <<>> <=> scenes[k].lstReads = 1
        /\ scenes[k].cache_qa # <<>> <=> scenes[k].qaReads = 1
        /\ scenes[k].lstWrites = 1 =>
            scenes[k].cache_lst[1] = open_rasterio(k, LstFile(k))
        /\ scenes[k].lstWrites = 2 =>
            /\ cfg.cloud_mask /\ scenes[k].cache_qa # <<>>
            /\ scenes[k].cache_lst[1] =
                open_rasterio(k, Masked(k, scenes[k].cache_qa[1].px))
        /\ normIn[k] # <<>> => normIn[k] = scenes[k].cache_lst
        /\ ~HasQa(k) => scenes[k].qaReads = 0 /\ scenes[k].cache_qa = <<>>

(* C6 witness: a masked scene went through the resampler, whose lst()     *)
(* call found the slot already written twice.                             *)
C6_Witness ==
    \E k \in Idx : scenes[k].lstWrites = 2 /\ outcome[k] = "kept"

(* C7: after _fuse returns on a non-empty batch on one pixel grid, each   *)
(* output pixel is the sum of the inputs valid there over their number:   *)
(* no-data where no input is valid, a value where at least one is.        *)
C7_MeanOfValidInputs ==
    (pc \in {"export", "done"} /\ SameGrid(valid_arrays)) =>
        LET t == GridOf(valid_arrays[1])
        IN  /\ DOMAIN fused = {t}
            /\ \A p \in Pixels :
                /\ fused[t][p].den = Cardinality(ValidAt(p))
                /\ fused[t][p].num =
                    SetSum([j \in DOMAIN valid_arrays |-> valid_arrays[j].px[p]],
                           ValidAt(p))
                /\ ValidAt(p) = {} <=> fused[t][p].den = 0

(* C7 witness: a fused batch of several inputs on one grid with a pixel   *)
(* that is no-data everywhere and a pixel valid in some inputs only.      *)
C7_Witness ==
    /\ pc = "export" /\ SameGrid(valid_arrays) /\ Len(valid_arrays) >= 2
    /\ \E p \in Pixels : ValidAt(p) = {}
    /\ \E p \in Pixels : ValidAt(p) # {} /\ ValidAt(p) # DOMAIN valid_arrays

(* C8: the grid of every SLSTR or MODIS scene in the batch is reprojected *)
(* to the target CRS and resolution, by nearest neighbour when no         *)
(* sr_model is configured.                                                *)
C8_CoarseSensorsReprojected ==
    \A j \in DOMAIN valid_arrays :
        scenes[valid_arrays[j].extent].sensor \in {"SLSTR", "MODIS"} =>
            /\ valid_arrays[j].crs = "EPSG:32612"
            /\ valid_arrays[j].res = cfg.target_resolution
            /\ cfg.sr_model = "None" => valid_arrays[j].kernel = "nearest"

(* C9 (as stated): the raster the resampler receives for a scene with a   *)
(* quality band is the data file with the flagged pixels set to no-data   *)
(* and the others unchanged, whatever the quality band holds; without a   *)
(* quality band it is the data file unchanged.                            *)
C9_MaskedBeforeResample ==
    \A k \in Idx : normIn[k] # <<>> =>
        \A content \in PossibleQa(k) :
            normIn[k][1].px =
                IF HasQa(k) THEN Masked(k, content) ELSE LstFile(k)

(* C9 (amended): with cloud_mask enabled, the raster the resampler        *)
(* receives for a scene with a quality band is the data file with the     *)
(* flagged pixels set to no-data and the others unchanged; with           *)
(* cloud_mask disabled, or without a quality band, it is the data file    *)
(* unchanged.                                                             *)
C9_MaskedBeforeResampleWhenEnabled ==
    \A k \in Idx : normIn[k] # <<>> =>
        \A content \in PossibleQa(k) :
            normIn[k][1].px =
                IF cfg.cloud_mask /\ HasQa(k)
                THEN Masked(k, content) ELSE LstFile(k)

(* C9 witness: the resampler received a scene whose quality band flags    *)
(* one pixel and clears another.                                          *)
C9_Witness ==
    \E k \in Idx :
        /\ normIn[k] # <<>> /\ cfg.cloud_mask /\ scenes[k].cache_qa # <<>>
        /\ \E p, q \in Pixels :
            /\ scenes[k].cache_qa[1].px[p] # 0
            /\ scenes[k].cache_qa[1].px[q] = 0

(* C10: when _fuse is about to be called the batch holds exactly one grid *)
(* per scene the cloud filter did not drop, in discovery order (so its    *)
(* length is the scenes discovered minus the scenes dropped), and no step *)
(* changes the handle of a scene other than the one being processed.      *)
C10_BatchIsSurvivorsInOrder ==
    [][/\ pc' = "fuse" => BatchIsSurvivors'
       /\ \A k \in Idx : k # i => scenes'[k] = scenes[k]]_vars

(* C10 witness: _fuse is about to be called on a batch from which one     *)
(* scene was dropped and in which another is present.                     *)
C10_Witness ==
    /\ pc = "fuse"
    /\ \E k \in Idx : outcome[k] = "dropped"
    /\ \E k \in Idx : outcome[k] = "kept"

====
